---- MODULE Spec2Model ----
(***************************************************************************)
(* The epoll-driven HTTP/1.1 proxy of proxy.py, with the incremental       *)
(* parser of message_builder_http.py and the per-socket context of         *)
(* connection.py.                                                          *)
(*                                                                         *)
(* A byte stream is a sequence of symbols.  Each symbol stands for a run   *)
(* of bytes the code never looks inside: "SP" is a blank, "CRLF" the line  *)
(* break, ":" the colon, a digit symbol a decimal digit, and every other   *)
(* symbol a run of bytes that holds none of these.  Offsets and buffer     *)
(* positions count symbols; a symbol of a body is a single byte, so that   *)
(* Content-Length counts the symbols of the body.  ByteLen gives the       *)
(* number of bytes a symbol stands for, which is what recv(BUF_SIZE)       *)
(* counts.                                                                 *)
(***************************************************************************)
EXTENDS Integers, Sequences, FiniteSets, TLC

\* ------------------------------- bounds ---------------------------------
MaxClients == 2      \* client connections accepted in one run
MaxMsgs == 2         \* messages the client peers write in one run, all together
MaxHeaderLines == 2  \* header lines of a message given to the parser on its own

\* ------------------------------ constants -------------------------------
BUF_SIZE == 4096

READ_ONLY == "READ_ONLY"
READ_WRITE == "READ_WRITE"

CLIENT_TO_PROXY == "CLIENT_TO_PROXY"
PROXY_TO_BACKEND == "PROXY_TO_BACKEND"

\* the list load_backend_servers returns, as "ip:port" strings
backend_servers == << "127.0.0.1:9101", "127.0.0.1:9102" >>
num_backends == Len(backend_servers)

\* descriptors the kernel hands to accepted connections, lowest first
ClientFDs == 5 .. (4 + MaxClients)

\* ------------------------------ byte helpers ----------------------------
Min(a, b) == IF a < b THEN a ELSE b

Drop(s, n) == SubSeq(s, n + 1, Len(s))

Take(s, n) == SubSeq(s, 1, n)

Put(f, k, v) == [x \in (DOMAIN f) \cup {k} |-> IF x = k THEN v ELSE f[x]]

\* del that deletes nothing
RemoveNothing(f, k) == f

Remove(f, k) == [x \in (DOMAIN f) \ {k} |-> f[x]]

IsSpace(a) == a \in {"SP", "CRLF"}

IsDigit(a) == a \in {"0", "1", "2", "3"}

DigitVal(a) == CASE a = "0" -> 0 [] a = "1" -> 1 [] a = "2" -> 2 [] a = "3" -> 3

\* str.lower() on one symbol
Lower(a) ==
    CASE a = "Content-Length" -> "content-length"
      [] a = "X-Request-ID" -> "x-request-id"
      [] a = "Connection" -> "connection"
      [] a = "Close" -> "close"
      [] a = "Keep-Alive" -> "keep-alive"
      [] a = "Accept" -> "accept"
      [] OTHER -> a

\* a run of 4096 bytes 'a'
FILL == "a*4096"

\* len() of the bytes one symbol stands for
ByteLen(a) ==
    CASE a \in {"SP", ":", "0", "1", "2", "3", "b", "x"} -> 1
      [] a \in {"CRLF", "/a", "/b"} -> 2
      [] a = "GET" -> 3
      [] a = "POST" -> 4
      [] a \in {"GARBAGE", "chunked"} -> 7
      [] a = "HTTP/1.1" -> 8
      [] a = "caller-42" -> 9
      [] a = "X-Request-ID" -> 12
      [] a = "Content-Length" -> 14
      [] a = "Transfer-Encoding" -> 17
      [] a = FILL -> 4096

\* len() of a byte sequence
RECURSIVE Size(_)
Size(bytes) == IF bytes = << >> THEN 0 ELSE ByteLen(bytes[1]) + Size(Tail(bytes))

\* first index >= from at which CRLF CRLF starts, 0 when there is none
\* (bytes.find returns -1)
RECURSIVE FindTerminator(_, _)
FindTerminator(buf, from) ==
    IF from + 1 > Len(buf) THEN 0
    ELSE IF buf[from] = "CRLF" /\ buf[from + 1] = "CRLF" THEN from
    ELSE FindTerminator(buf, from + 1)

\* bytes.split(sep) for a one-symbol separator: the list of pieces
RECURSIVE SplitOn(_, _, _)
SplitOn(s, sep, cur) ==
    IF s = << >> THEN << cur >>
    ELSE IF s[1] = sep THEN << cur >> \o SplitOn(Tail(s), sep, << >>)
    ELSE SplitOn(Tail(s), sep, Append(cur, s[1]))

\* str.split(): the maximal runs of non-blank symbols
RECURSIVE Words(_, _)
Words(s, cur) ==
    IF s = << >> THEN (IF cur = << >> THEN << >> ELSE << cur >>)
    ELSE IF IsSpace(s[1])
         THEN (IF cur = << >> THEN << >> ELSE << cur >>) \o Words(Tail(s), << >>)
         ELSE Words(Tail(s), Append(cur, s[1]))

RECURSIVE LStrip(_)
LStrip(s) == IF s # << >> /\ IsSpace(s[1]) THEN LStrip(Tail(s)) ELSE s

RECURSIVE RStrip(_)
RStrip(s) ==
    IF s # << >> /\ IsSpace(s[Len(s)]) THEN RStrip(Take(s, Len(s) - 1)) ELSE s

\* str.strip()
Strip(s) == RStrip(LStrip(s))

\* index of the first ":" of a line, 0 when there is none
RECURSIVE ColonAt(_, _)
ColonAt(line, i) ==
    IF i > Len(line) THEN 0
    ELSE IF line[i] = ":" THEN i
    ELSE ColonAt(line, i + 1)

\* the decimal value of a run of digit symbols
RECURSIVE Decimal(_, _)
Decimal(s, acc) ==
    IF s = << >> THEN acc ELSE Decimal(Tail(s), 10 * acc + DigitVal(s[1]))

\* the leading run of digit symbols of s
RECURSIVE DigitRun(_)
DigitRun(s) ==
    IF s # << >> /\ IsDigit(s[1]) THEN << s[1] >> \o DigitRun(Tail(s)) ELSE << >>

AllDigits(s) == s # << >> /\ \A i \in 1 .. Len(s) : IsDigit(s[i])

\* " ".join(words)
RECURSIVE JoinSP(_)
JoinSP(ws) ==
    IF ws = << >> THEN << >>
    ELSE IF Len(ws) = 1 THEN ws[1]
    ELSE ws[1] \o << "SP" >> \o JoinSP(Tail(ws))

\* ------------------------- message_builder_http.py ----------------------
\* A text (method, header name, header value, ...) is a sequence of symbols;
\* the empty string is << >>.  headers is the dict, kept as the sequence of
\* its items in insertion order.
NewBuilder ==
    [ is_response      |-> FALSE,
      headers_received |-> FALSE,
      header_buffer    |-> << >>,
      headers          |-> << >>,
      method           |-> << >>,
      path             |-> << >>,
      http_version     |-> << "HTTP/1.1" >>,
      content_length   |-> 0,
      body_received    |-> 0,
      body_data        |-> << >>,
      status_code      |-> << "0" >>,
      status_message   |-> << >>,
      keep_alive       |-> TRUE ]

\* dict.get(key, default)
HeaderGet(headers, key, default) ==
    IF \E i \in 1 .. Len(headers) : headers[i].k = key
    THEN headers[CHOOSE i \in 1 .. Len(headers) : headers[i].k = key].v
    ELSE default

\* dict[key] = value: an existing key keeps its place, a new one goes last
HeaderSet(headers, key, value) ==
    IF \E i \in 1 .. Len(headers) : headers[i].k = key
    THEN [i \in 1 .. Len(headers) |->
            IF headers[i].k = key THEN [k |-> key, v |-> value] ELSE headers[i]]
    ELSE Append(headers, [k |-> key, v |-> value])

\* the loop over lines[1:] of parse_header_lines
RECURSIVE HeaderLines(_, _)
HeaderLines(lines, headers) ==
    IF lines = << >> THEN headers
    ELSE LET line == lines[1]
             c == ColonAt(line, 1)
         IN IF c = 0 THEN HeaderLines(Tail(lines), headers)
            ELSE HeaderLines(Tail(lines),
                             HeaderSet(headers, Strip(Take(line, c - 1)),
                                       Strip(Drop(line, c))))

\* str.startswith("HTTP") on a word
StartsWithHTTP(word) == word # << >> /\ word[1] \in {"HTTP/1.1", "HTTP/1.0"}

\* int(cl) with ValueError giving 0
\* (int() takes a sign before the digits)
IntOrZero(text) ==
    IF AllDigits(text) THEN Decimal(text, 0)
    ELSE IF text # << >> /\ text[1] = "-" /\ AllDigits(Tail(text))
    THEN 0 - Decimal(Tail(text), 0)
    ELSE IF text # << >> /\ text[1] = "+" /\ AllDigits(Tail(text))
    THEN Decimal(Tail(text), 0)
    ELSE 0

LowerText(text) == [i \in 1 .. Len(text) |-> Lower(text[i])]

\* parse_header_lines step 1: the request or status line
StartLine(self, parts) ==
    IF Len(parts) >= 3
    THEN IF StartsWithHTTP(parts[1])
         THEN [self EXCEPT !.is_response = TRUE,
                           !.http_version = parts[1],
                           !.status_code = parts[2],
                           !.status_message = JoinSP(Drop(parts, 2))]
         ELSE [self EXCEPT !.method = parts[1],
                           !.path = parts[2],
                           !.http_version = parts[3]]
    ELSE self

\* parse_header_lines, the keep-alive check on the lower-cased Connection value
KeepAlive(self, conn_hdr) ==
    IF self.http_version = << "HTTP/1.1" >>
    THEN (IF conn_hdr = << "close" >> THEN FALSE ELSE self.keep_alive)
    ELSE conn_hdr = << "keep-alive" >>

\* parse_header_lines step 3 and the keep-alive check, on the filled dict
FromHeaders(self, hs) ==
    [self EXCEPT
        !.headers = hs,
        !.content_length = IntOrZero(HeaderGet(hs, << "Content-Length" >>, << "0" >>)),
        !.keep_alive = KeepAlive(self, LowerText(HeaderGet(hs, << "Connection" >>, << >>)))]

\* parse_header_lines step 2: the header lines go into self.headers
WithHeaders(self, lines) == FromHeaders(self, HeaderLines(lines, self.headers))

ParseLines(self, lines) ==
    WithHeaders(StartLine(self, Words(lines[1], << >>)), Tail(lines))

parse_header_lines(self, header_part) ==
    ParseLines(self, SplitOn(header_part, "CRLF", << >>))

\* the while loop of parse_data: one byte at a time into header_buffer
RECURSIVE HeaderLoop(_, _, _)
HeaderLoop(self, data, offset) ==
    IF offset < Len(data) /\ ~self.headers_received
    THEN LET hb == Append(self.header_buffer, data[offset + 1])
             t == FindTerminator(hb, 1)
         IN IF t # 0
            THEN [b |-> parse_header_lines(
                          [self EXCEPT !.header_buffer = hb,
                                       !.headers_received = TRUE],
                          Take(hb, t - 1)),
                  offset |-> offset + 1]
            ELSE HeaderLoop([self EXCEPT !.header_buffer = hb], data, offset + 1)
    ELSE [b |-> self, offset |-> offset]

\* part 2 of parse_data: the body, after the header loop has left h
ParseBody(h, data) ==
    LET body_needed == h.b.content_length - h.b.body_received
        can_take == Min(body_needed, Len(data) - h.offset)
    IN IF h.b.headers_received /\ body_needed > 0 /\ h.offset < Len(data)
       THEN [b |-> [h.b EXCEPT
                      !.body_data = @ \o SubSeq(data, h.offset + 1, h.offset + can_take),
                      !.body_received = @ + can_take],
             offset |-> h.offset + can_take]
       ELSE h

\* parse_data: the builder afterwards and the number of bytes consumed
parse_data(self, data) == ParseBody(HeaderLoop(self, data, 0), data)

is_complete(self) ==
    self.headers_received /\ self.body_received >= self.content_length

RECURSIVE HeaderBytes(_)
HeaderBytes(headers) ==
    IF headers = << >> THEN << >>
    ELSE headers[1].k \o << ":", "SP" >> \o headers[1].v \o << "CRLF" >>
         \o HeaderBytes(Tail(headers))

\* build_full_message without step 3's body
build_full_message_no_body(self) ==
    (IF self.is_response
     THEN self.http_version \o << "SP" >> \o self.status_code \o << "SP" >>
          \o self.status_message \o << "CRLF" >>
     ELSE self.method \o << "SP" >> \o self.path \o << "SP" >>
          \o self.http_version \o << "CRLF" >>)
    \o HeaderBytes(self.headers) \o << "CRLF" >>

\* the second definition of build_full_message, which replaces the first
build_full_message(self) ==
    (IF self.is_response
     THEN self.http_version \o << "SP" >> \o self.status_code \o << "SP" >>
          \o self.status_message \o << "CRLF" >>
     ELSE self.method \o << "SP" >> \o self.path \o << "SP" >>
          \o self.http_version \o << "CRLF" >>)
    \o HeaderBytes(self.headers) \o << "CRLF" >> \o self.body_data

\* ------------------------------ proxy.py --------------------------------
\* re.search(r"Content-Length:\s*(\d+)", header_part, re.IGNORECASE):
\* the number of the first match, -1 when nothing matches
RECURSIVE ContentLengthSearch(_, _)
ContentLengthSearch(text, i) ==
    IF i + 1 > Len(text) THEN -1
    ELSE IF Lower(text[i]) = "content-length" /\ text[i + 1] = ":"
            /\ DigitRun(LStrip(Drop(text, i + 1))) # << >>
         THEN Decimal(DigitRun(LStrip(Drop(text, i + 1))), 0)
         ELSE ContentLengthSearch(text, i + 1)

\* the content_length _find_message_boundaries reads from header_part
ScanContentLength(m) == IF m >= 0 THEN m ELSE 0

\* message_end for the headers that end at header_end (positions from 0)
MessageEnd(buffer, current_pos, header_end) ==
    header_end + 2
    + ScanContentLength(
        ContentLengthSearch(SubSeq(buffer, current_pos + 1, header_end), 1))

\* _find_message_boundaries, current_pos counted from 0 as in the code
RECURSIVE FindBoundaries(_, _)
RECURSIVE CutMessage(_, _, _)
CutMessage(buffer, current_pos, message_end) ==
    IF message_end > Len(buffer) THEN << Drop(buffer, current_pos) >>
    ELSE << SubSeq(buffer, current_pos + 1, message_end) >>
         \o FindBoundaries(buffer, message_end)

FindBoundariesAt(buffer, current_pos, t) ==
    IF t = 0 THEN << Drop(buffer, current_pos) >>
    ELSE CutMessage(buffer, current_pos, MessageEnd(buffer, current_pos, t - 1))

FindBoundaries(buffer, current_pos) ==
    IF current_pos >= Len(buffer) THEN << >>
    ELSE FindBoundariesAt(buffer, current_pos, FindTerminator(buffer, current_pos + 1))

find_message_boundaries(buffer) == FindBoundaries(buffer, 0)

\* SocketContext.__init__ and the fields handle_new_connection fills in
NewSocketContext(fd, type, addr) ==
    [ socket_type          |-> type,
      file_descriptor      |-> fd,
      address              |-> addr,
      recv_buffer          |-> << >>,
      current_request      |-> NewBuilder,
      current_response     |-> NewBuilder,
      request_queue        |-> << >>,
      response_queue       |-> << >>,
      send_buffer          |-> << >>,
      client_request_order |-> << >> ]

\* the messages a client peer writes
GetA == << "GET", "SP", "/a", "SP", "HTTP/1.1", "CRLF", "CRLF" >>

GetId ==
    << "GET", "SP", "/a", "SP", "HTTP/1.1", "CRLF",
       "X-Request-ID", ":", "caller-42", "CRLF", "CRLF" >>

PostB ==
    << "POST", "SP", "/b", "SP", "HTTP/1.1", "CRLF",
       "Content-Length", ":", "2", "CRLF", "CRLF", "b", "b" >>

\* a start line that is no request line
BadStart == << "GARBAGE", "CRLF", "CRLF" >>

\* a Content-Length that is no integer
BadLen ==
    << "POST", "SP", "/b", "SP", "HTTP/1.1", "CRLF",
       "Content-Length", ":", "x", "CRLF", "CRLF" >>

\* a request with a Transfer-Encoding header
Chunked ==
    << "POST", "SP", "/b", "SP", "HTTP/1.1", "CRLF",
       "Transfer-Encoding", ":", "chunked", "CRLF", "CRLF" >>

\* 4100 bytes of a header block that does not end
Pad == << "GET", "SP", FILL >>

ClientMessages == { GetA, GetId, PostB, BadStart, BadLen, Chunked, Pad }

VARIABLES
    running,                \* run() is inside its while loop
    exception,              \* what run() raised: "none", "AttributeError", "KeyError"
    fd_to_socket,           \* the keys of self.fd_to_socket
    fd_to_socket_context,   \* self.fd_to_socket_context
    epoll,                  \* descriptor -> event mask registered with self.epoll
    req_to_client,          \* self.req_to_client
    address_to_fd,          \* self.address_to_fd
    backend_index,          \* self.backend_index
    wire,                   \* per descriptor: bytes the peer wrote, not yet received
    peer,                   \* per descriptor: "none", "open", "closed" (FIN), "reset" (RST)
    written,                \* messages the client peers have written so far
    rx,                     \* per descriptor: every byte recv has returned so far
    routed,                 \* the complete messages handed to the router, in order
    torn,                   \* descriptors close_connection has been called on
    codec                   \* a MessageBuilderHTTP driven on its own (CodecSpec)

vars ==
    << running, exception, fd_to_socket, fd_to_socket_context, epoll,
       req_to_client, address_to_fd, backend_index, wire, peer, written, rx,
       routed, torn, codec >>

\* the variables of the proxy
proxy_vars ==
    << running, exception, fd_to_socket, fd_to_socket_context, epoll,
       req_to_client, address_to_fd, backend_index, wire, peer, written, rx,
       routed, torn >>

\* no builder is driven on its own
CodecOff ==
    [pc |-> "off", input |-> << >>, m |-> NewBuilder, out |-> << >>, m2 |-> NewBuilder]

\* ProxyServer.__init__ and setup_server
ProxyInit ==
    /\ running = TRUE
    /\ exception = "none"
    /\ fd_to_socket = {}
    /\ fd_to_socket_context = << >>
    /\ epoll = << >>
    /\ req_to_client = << >>
    /\ address_to_fd = << >>
    /\ backend_index = 0
    /\ wire = [fd \in ClientFDs |-> << >>]
    /\ peer = [fd \in ClientFDs |-> "none"]
    /\ written = 0
    /\ rx = [fd \in ClientFDs |-> << >>]
    /\ routed = << >>
    /\ torn = {}

Init == ProxyInit /\ codec = CodecOff

\* getattr(obj, name) succeeds
HasAttr(obj, name) == name \in DOMAIN obj

\* _handle_complete_client_request: line 336 reads request.x_request_id, an
\* attribute that neither MessageBuilderHTTP.__init__ nor parse_header_lines
\* sets; the read raises AttributeError before any state is touched.
handle_complete_client_request(client_context, request) ==
    IF HasAttr(request, "x_request_id") THEN "none" ELSE "AttributeError"

\* _handle_complete_backend_response: line 385 reads response.x_request_id
handle_complete_backend_response(backend_context, response) ==
    IF HasAttr(response, "x_request_id") THEN "none" ELSE "AttributeError"

IsClient(ctx) == ctx.socket_type = CLIENT_TO_PROXY

SetCurrent(ctx, builder) ==
    IF IsClient(ctx) THEN [ctx EXCEPT !.current_request = builder]
    ELSE [ctx EXCEPT !.current_response = builder]

\* the for loop of handle_read_event (lines 175-232) from message i on
\* (i counted from 0).  exc is the exception that leaves the handler, closed
\* tells that close_connection was called, routed lists the messages handed
\* to _handle_complete_client_request / _handle_complete_backend_response.
RECURSIVE ReadLoop(_, _, _, _)

\* lines 188-232 without line 213: a partial last message is stored in the
\* builder and recv_buffer keeps every byte
ReadStepKeepsBuffer(ctx1, messages, i, handed, p) ==
    LET message == messages[i + 1]
        last == (i = Len(messages) - 1)
        e == IF IsClient(ctx1)
             THEN handle_complete_client_request(ctx1, p.b)
             ELSE handle_complete_backend_response(ctx1, p.b)
        h2 == Append(handed, [fd |-> ctx1.file_descriptor, msg |-> p.b])
    IN IF p.offset > 0
       THEN IF is_complete(p.b)
            THEN IF e # "none"
                 THEN [ctx |-> ctx1, exc |-> e, closed |-> FALSE, routed |-> h2]
                 ELSE ReadLoop(IF i = 0 THEN SetCurrent(ctx1, NewBuilder) ELSE ctx1,
                               messages, i + 1, h2)
            ELSE IF last
                 THEN ReadLoop(SetCurrent(ctx1, p.b), messages, i + 1, handed)
                 ELSE [ctx |-> ctx1, exc |-> "none", closed |-> TRUE, routed |-> handed]
       ELSE IF last
            THEN ReadLoop([ctx1 EXCEPT !.recv_buffer = message], messages, i + 1, handed)
            ELSE [ctx |-> ctx1, exc |-> "none", closed |-> TRUE, routed |-> handed]

\* lines 188-232 for message i, p being what parse_data returned and ctx1
\* the context after it (for i = 0 the builder is the context's own object,
\* changed in place)
ReadStep(ctx1, messages, i, handed, p) ==
    LET message == messages[i + 1]
        last == (i = Len(messages) - 1)
        e == IF IsClient(ctx1)
             THEN handle_complete_client_request(ctx1, p.b)
             ELSE handle_complete_backend_response(ctx1, p.b)
        h2 == Append(handed, [fd |-> ctx1.file_descriptor, msg |-> p.b])
    IN IF p.offset > 0
       THEN IF is_complete(p.b)
            THEN IF e # "none"
                 THEN [ctx |-> ctx1, exc |-> e, closed |-> FALSE, routed |-> h2]
                 ELSE ReadLoop(IF i = 0 THEN SetCurrent(ctx1, NewBuilder) ELSE ctx1,
                               messages, i + 1, h2)
            ELSE IF last
                 THEN ReadLoop([SetCurrent(ctx1, p.b) EXCEPT
                                   !.recv_buffer = Drop(message, p.offset)],
                               messages, i + 1, handed)
                 ELSE [ctx |-> ctx1, exc |-> "none", closed |-> TRUE, routed |-> handed]
       ELSE IF last
            THEN ReadLoop([ctx1 EXCEPT !.recv_buffer = message], messages, i + 1, handed)
            ELSE [ctx |-> ctx1, exc |-> "none", closed |-> TRUE, routed |-> handed]

\* lines 180-186: the builder message i is parsed with
BuilderFor(ctx, i) ==
    IF i = 0
    THEN (IF IsClient(ctx) THEN ctx.current_request ELSE ctx.current_response)
    ELSE NewBuilder

ReadParsed(ctx, messages, i, handed, p) ==
    ReadStep(IF i = 0 THEN SetCurrent(ctx, p.b) ELSE ctx, messages, i, handed, p)

ReadLoop(ctx, messages, i, handed) ==
    IF i >= Len(messages)
    THEN [ctx |-> ctx, exc |-> "none", closed |-> FALSE, routed |-> handed]
    ELSE ReadParsed(ctx, messages, i, handed,
                    parse_data(BuilderFor(ctx, i), messages[i + 1]))

\* lines 164-232: the buffer is split and the pieces are parsed
ReadMessages(ctx1, messages) ==
    IF messages = << >>
    THEN [ctx |-> ctx1, exc |-> "none", closed |-> FALSE, routed |-> << >>]
    ELSE ReadLoop(ctx1, messages, 0, << >>)

\* handle_read_event after a non-empty recv (lines 160-232)
ReadData(ctx, data) ==
    ReadMessages([ctx EXCEPT !.recv_buffer = @ \o data],
                 find_message_boundaries(ctx.recv_buffer \o data))

\* An exception that leaves run(): the finally clause calls shutdown(), which
\* closes every socket, clears fd_to_socket and closes the epoll object.
\* fd_to_socket_context is not cleared.
Shutdown(exc, contexts) ==
    /\ running' = FALSE
    /\ exception' = exc
    /\ fd_to_socket' = {}
    /\ epoll' = << >>
    /\ fd_to_socket_context' = contexts

\* close_connection with its guard (file_no in self.fd_to_socket) false:
\* nothing is unregistered, closed or deleted
close_connection_skipped(file_no) ==
    /\ file_no \in fd_to_socket
    /\ torn' = torn \cup {file_no}
    /\ UNCHANGED << running, exception, fd_to_socket, epoll, fd_to_socket_context >>

\* close_connection(file_no) for a descriptor in fd_to_socket: it unregisters
\* and closes the socket, deletes both map entries and then, in its last
\* line, reads self.fd_to_socket_context[file_no], the entry just deleted.
\* The KeyError is caught nowhere (handle_read_event catches ConnectionError
\* and socket.error only) and ends run().
close_connection(file_no) ==
    /\ file_no \in fd_to_socket
    /\ torn' = torn \cup {file_no}
    /\ Shutdown("KeyError", Remove(fd_to_socket_context, file_no))

\* the lowest free descriptor
NextFD == CHOOSE fd \in ClientFDs :
             peer[fd] = "none" /\ \A g \in ClientFDs : peer[g] = "none" => fd <= g

\* run() case 1: a client connects and handle_new_connection accepts it
handle_new_connection ==
    /\ running
    /\ \E fd \in ClientFDs : peer[fd] = "none"
    /\ LET fd == NextFD
       IN /\ fd_to_socket' = fd_to_socket \cup {fd}
          /\ epoll' = Put(epoll, fd, READ_ONLY)
          /\ fd_to_socket_context' =
                Put(fd_to_socket_context, fd, NewSocketContext(fd, CLIENT_TO_PROXY, "client"))
          /\ peer' = [peer EXCEPT ![fd] = "open"]
    /\ UNCHANGED << codec, running, exception, req_to_client, address_to_fd, backend_index,
                    wire, written, rx, routed, torn >>

\* the client peer writes one message on its connection
PeerWrite(fd, m) ==
    /\ running
    /\ peer[fd] = "open"
    /\ written < MaxMsgs
    /\ wire' = [wire EXCEPT ![fd] = @ \o m]
    /\ written' = written + 1
    /\ UNCHANGED << codec, running, exception, fd_to_socket, fd_to_socket_context, epoll,
                    req_to_client, address_to_fd, backend_index, peer, rx, routed, torn >>

\* the client peer closes its end (FIN)
PeerClose(fd) ==
    /\ running
    /\ peer[fd] = "open"
    /\ peer' = [peer EXCEPT ![fd] = "closed"]
    /\ UNCHANGED << codec, running, exception, fd_to_socket, fd_to_socket_context, epoll,
                    req_to_client, address_to_fd, backend_index, wire, written, rx,
                    routed, torn >>

\* the client peer resets the connection (RST)
PeerReset(fd) ==
    /\ running
    /\ peer[fd] = "open"
    /\ peer' = [peer EXCEPT ![fd] = "reset"]
    /\ UNCHANGED << codec, running, exception, fd_to_socket, fd_to_socket_context, epoll,
                    req_to_client, address_to_fd, backend_index, wire, written, rx,
                    routed, torn >>

\* run() case 2 with recv returning data (lines 153-238)
ReadEventData(fd) ==
    /\ running
    /\ fd \in DOMAIN epoll
    /\ peer[fd] # "reset"
    /\ wire[fd] # << >>
    /\ \E n \in { k \in 1 .. Len(wire[fd]) : Size(Take(wire[fd], k)) <= BUF_SIZE } :
       \E r \in { ReadData(fd_to_socket_context[fd], Take(wire[fd], n)) } :
            /\ wire' = [wire EXCEPT ![fd] = Drop(@, n)]
            /\ rx' = [rx EXCEPT ![fd] = @ \o Take(wire[fd], n)]
            /\ routed' = routed \o r.routed
            /\ IF r.closed
               THEN close_connection(fd)
               ELSE IF r.exc # "none"
               THEN /\ Shutdown(r.exc, Put(fd_to_socket_context, fd, r.ctx))
                    /\ UNCHANGED torn
               ELSE /\ fd_to_socket_context' = Put(fd_to_socket_context, fd, r.ctx)
                    /\ epoll' = IF Len(r.ctx.send_buffer) > 0
                                THEN Put(epoll, fd, READ_WRITE) ELSE epoll
                    /\ UNCHANGED << running, exception, fd_to_socket, torn >>
    /\ UNCHANGED << codec, req_to_client, address_to_fd, backend_index, peer, written >>

\* run() case 2 with recv returning b"": the peer has closed (lines 155-157)
ReadEventEOF(fd) ==
    /\ running
    /\ fd \in DOMAIN epoll
    /\ peer[fd] = "closed"
    /\ wire[fd] = << >>
    /\ close_connection(fd)
    /\ UNCHANGED << codec, req_to_client, address_to_fd, backend_index, wire, peer, written,
                    rx, routed >>

\* run() case 2 with recv raising ConnectionResetError: the except clause of
\* handle_read_event (lines 240-242) calls close_connection
ReadEventError(fd) ==
    /\ running
    /\ fd \in DOMAIN epoll
    /\ peer[fd] = "reset"
    /\ close_connection(fd)
    /\ UNCHANGED << codec, req_to_client, address_to_fd, backend_index, wire, peer, written,
                    rx, routed >>

\* run() case 2 with recv raising BlockingIOError (EAGAIN on the
\* non-blocking socket after a spurious readiness report): a subclass of
\* OSError, which is socket.error, so the except clause of lines 240-242
\* catches it and calls close_connection
ReadEventWouldBlock(fd) ==
    /\ running
    /\ fd \in DOMAIN epoll
    /\ peer[fd] = "open"
    /\ wire[fd] = << >>
    /\ close_connection(fd)
    /\ UNCHANGED << codec, req_to_client, address_to_fd, backend_index, wire, peer, written,
                    rx, routed >>

\* run() case 4: epoll reports a failed connection with EPOLLERR or EPOLLHUP
\* and without EPOLLIN, EPOLLPRI and EPOLLOUT (the masks 8, 16 and 24 of
\* BITERRS), and run() calls close_connection itself.  With EPOLLIN in the
\* mask the event is a read event (ReadEventError).
ErrorEvent(fd) ==
    /\ running
    /\ fd \in DOMAIN epoll
    /\ peer[fd] = "reset"
    /\ close_connection(fd)
    /\ UNCHANGED << codec, req_to_client, address_to_fd, backend_index, wire, peer, written,
                    rx, routed >>

handle_read_event(fd) ==
    \/ ReadEventData(fd)
    \/ ReadEventEOF(fd)
    \/ ReadEventError(fd)
    \/ ReadEventWouldBlock(fd)

Next ==
    \/ handle_new_connection
    \/ \E fd \in ClientFDs : handle_read_event(fd)
    \/ \E fd \in ClientFDs : ErrorEvent(fd)
    \/ \E fd \in ClientFDs : \E m \in ClientMessages : PeerWrite(fd, m)
    \/ \E fd \in ClientFDs : PeerClose(fd)
    \/ \E fd \in ClientFDs : PeerReset(fd)

Spec == Init /\ [][Next]_vars

\* ------------------ the parser and serializer on their own ---------------
\* parse_data and build_full_message as pure functions: a message is drawn,
\* a prefix of it is parsed by a new builder, the builder is serialized and
\* the bytes are parsed again by a new builder.
StartLines ==
    { << "GET", "SP", "/a", "SP", "HTTP/1.1" >>,
      << "POST", "SP", "/b", "SP", "HTTP/1.0" >>,
      << "HTTP/1.1", "SP", "200", "SP", "OK" >>,
      << "HTTP/1.0", "SP", "404", "SP", "Not", "SP", "Found" >>,
      << "GET", "SP", "/a" >> }

CodecHeaderLines ==
    { << "Content-Length", ":", "SP", "2" >>,
      << "Content-Length", ":", "x" >>,
      << "content-length", ":", "2" >>,
      << "Content-Length", ":", "-", "1" >>,
      << "Connection", ":", "SP", "Close" >>,
      << "Connection", ":", "Keep-Alive" >>,
      << "Accept", ":", "a" >>,
      << "SP", "Accept", "SP", ":", "SP", "b", "SP" >>,
      << "nocolon" >> }

Bodies == { << >>, << "b" >>, << "b", "b", "b" >> }

\* the header lines, each followed by its line break
RECURSIVE JoinLines(_)
JoinLines(lines) ==
    IF lines = << >> THEN << >>
    ELSE lines[1] \o << "CRLF" >> \o JoinLines(Tail(lines))

HeaderBlocks ==
    UNION { [1 .. n -> CodecHeaderLines] : n \in 0 .. MaxHeaderLines }

CodecInputs ==
    { sl \o << "CRLF" >> \o JoinLines(hs) \o << "CRLF" >> \o body :
        sl \in StartLines, hs \in HeaderBlocks, body \in Bodies }

CodecInit ==
    /\ ProxyInit
    /\ codec \in { [CodecOff EXCEPT !.pc = "input", !.input = i] : i \in CodecInputs }

\* builder = MessageBuilderHTTP(); builder.parse_data(data), data being the
\* first n bytes of the message
CodecParse ==
    /\ codec.pc = "input"
    /\ \E n \in 1 .. Len(codec.input) :
          codec' = [codec EXCEPT !.pc = "parsed",
                                !.input = Take(codec.input, n),
                                !.m = parse_data(NewBuilder, Take(codec.input, n)).b]
    /\ UNCHANGED proxy_vars

\* builder.build_full_message()
CodecBuild ==
    /\ codec.pc = "parsed"
    /\ codec' = [codec EXCEPT !.pc = "built", !.out = build_full_message(codec.m)]
    /\ UNCHANGED proxy_vars

\* MessageBuilderHTTP().parse_data(out)
CodecReparse ==
    /\ codec.pc = "built"
    /\ codec' = [codec EXCEPT !.pc = "reparsed",
                              !.m2 = parse_data(NewBuilder, codec.out).b]
    /\ UNCHANGED proxy_vars

CodecNext ==
    \/ CodecParse
    \/ CodecBuild
    \/ CodecReparse

CodecSpec == CodecInit /\ [][CodecNext]_vars

\* ------------------------------ properties ------------------------------
XID == << "X-Request-ID" >>

HasHeader(msg, key) == \E i \in 1 .. Len(msg.headers) : msg.headers[i].k = key

\* the complete messages of descriptor fd that reached the router, in order
RoutedOn(fd) == SelectSeq(routed, LAMBDA r : r.fd = fd)

\* what one read event routes when recv returns, in one piece, all the bytes
\* that descriptor fd has received so far
WholeStream(fd) ==
    IF rx[fd] = << >> THEN << >>
    ELSE ReadData(NewSocketContext(fd, CLIENT_TO_PROXY, "client"), rx[fd]).routed

\* request id is a key of req_to_client for client fd and stands in the
\* client_request_order of fd
Recorded(id, fd) ==
    /\ id \in DOMAIN req_to_client
    /\ req_to_client[id] = fd
    /\ fd \in DOMAIN fd_to_socket_context
    /\ \E j \in 1 .. Len(fd_to_socket_context[fd].client_request_order) :
          fd_to_socket_context[fd].client_request_order[j] = id

\* the number of X-Request-ID header names in a byte sequence
RECURSIVE CountXID(_)
CountXID(bytes) ==
    IF bytes = << >> THEN 0
    ELSE (IF bytes[1] = "X-Request-ID" THEN 1 ELSE 0) + CountXID(Tail(bytes))

\* some backend connection holds a request that carries id as its only
\* X-Request-ID header, queued or serialized into its send_buffer
Forwarded(id) ==
    \E b \in DOMAIN fd_to_socket_context :
       LET c == fd_to_socket_context[b]
       IN /\ c.socket_type = PROXY_TO_BACKEND
          /\ \/ \E j \in 1 .. Len(c.request_queue) :
                   /\ c.request_queue[j][1] = id
                   /\ HeaderGet(c.request_queue[j][2].headers, XID, << >>) = id
                   /\ CountXID(build_full_message(c.request_queue[j][2])) = 1
             \/ /\ CountXID(c.send_buffer) = 1
                /\ \E k \in 1 .. Len(c.send_buffer) :
                      /\ c.send_buffer[k] = "X-Request-ID"
                      /\ SubSeq(c.send_buffer, k + 3, k + 2 + Len(id)) = id

\* The router past line 336 is never reached: in every state the request
\* map and the backend pool are empty, the round-robin index is 0, every
\* context is a client with empty queues and an empty send_buffer, and every
\* registered mask is READ_ONLY.
RouterUnreached ==
    /\ req_to_client = << >>
    /\ address_to_fd = << >>
    /\ backend_index = 0
    /\ \A fd \in DOMAIN epoll : epoll[fd] = READ_ONLY
    /\ \A fd \in DOMAIN fd_to_socket_context :
          LET c == fd_to_socket_context[fd]
          IN /\ c.socket_type = CLIENT_TO_PROXY
             /\ c.request_queue = << >>
             /\ c.response_queue = << >>
             /\ c.send_buffer = << >>
             /\ c.client_request_order = << >>

\* C6: tearing down one connection closes only that connection: the event
\* loop keeps running and every other open connection keeps its poller
\* registration and its context (buffers and queues) unchanged.
C6_TeardownClosesOnlyThatConnection ==
    [][ torn' # torn =>
          /\ running'
          /\ \A fd \in fd_to_socket \ torn' :
                /\ fd \in fd_to_socket'
                /\ fd \in DOMAIN epoll'
                /\ epoll'[fd] = epoll[fd]
                /\ fd \in DOMAIN fd_to_socket_context'
                /\ fd_to_socket_context'[fd] = fd_to_socket_context[fd] ]_vars

\* C7: framing stability: on every connection the complete messages routed
\* over several read events are the messages, in the same order, that one
\* read of the whole stream received so far routes.
C7_FramingStability == \A fd \in ClientFDs : RoutedOn(fd) = WholeStream(fd)

\* C8: round-robin: the k-th completed client request is assigned to backend
\* ((k - 1) mod K) + 1 of the configured list, so after N completed requests
\* the round-robin index is N mod K and each of the first min(N, K) backends
\* has a pooled connection that received a request.
C8_RoundRobin ==
    /\ backend_index = Len(routed) % num_backends
    /\ \A k \in 1 .. Min(Len(routed), num_backends) :
          backend_servers[k] \in DOMAIN address_to_fd

\* C9: when a complete client request without an X-Request-ID header is
\* routed, afterwards some minted id is the key recorded in req_to_client for
\* that client, stands in the client's request order, and is the single
\* X-Request-ID header of the request handed to a backend connection.
C9_MissingIdIsMinted ==
    [][ \A r \in { routed'[i] : i \in (Len(routed) + 1) .. Len(routed') } :
          ~HasHeader(r.msg, XID) =>
             \E id \in DOMAIN req_to_client' :
                Recorded(id, r.fd)' /\ Forwarded(id)' ]_vars

\* C10: when a complete client request that carries X-Request-ID: v is
\* routed, afterwards v is the key recorded in req_to_client for that client,
\* stands in the client's request order, and is the single X-Request-ID
\* header of the request handed to a backend connection.
C10_SuppliedIdIsKept ==
    [][ \A r \in { routed'[i] : i \in (Len(routed) + 1) .. Len(routed') } :
          HasHeader(r.msg, XID) =>
             \E v \in { HeaderGet(r.msg.headers, XID, << >>) } :
                Recorded(v, r.fd)' /\ Forwarded(v)' ]_vars

\* a parsed message whose start line gave no request line and no status line
BadStartLine(msg) == msg.method = << >> /\ ~msg.is_response

\* a parsed message whose Content-Length header is no integer
BadContentLength(msg) ==
    /\ HasHeader(msg, << "Content-Length" >>)
    /\ ~AllDigits(HeaderGet(msg.headers, << "Content-Length" >>, << >>))

Malformed(msg) ==
    \/ BadStartLine(msg)
    \/ BadContentLength(msg)
    \/ HasHeader(msg, << "Transfer-Encoding" >>)

\* C15: a message with a bad start line, a non-integer Content-Length or a
\* Transfer-Encoding header is never handed to the router, and once the
\* bytes received on a connection hold such a message, close_connection has
\* been called on that connection.
C15_MalformedNeverRouted ==
    /\ \A i \in 1 .. Len(routed) : ~Malformed(routed[i].msg)
    /\ \A fd \in ClientFDs :
          (\E i \in 1 .. Len(WholeStream(fd)) : Malformed(WholeStream(fd)[i].msg))
             => fd \in torn

\* C16: no parser's header buffer holds more than 8192 bytes, and a
\* connection on which more than 8192 bytes have arrived without CRLF CRLF
\* has been torn down.
C16_HeaderBufferBounded ==
    /\ \A fd \in DOMAIN fd_to_socket_context :
          Size(fd_to_socket_context[fd].current_request.header_buffer) <= 8192
    /\ \A fd \in ClientFDs :
          (FindTerminator(rx[fd], 1) = 0 /\ Size(rx[fd]) > 8192) => fd \in torn

\* C17: a recv that reports WouldBlock changes nothing: the server keeps
\* running, and the connection stays open and registered with its context,
\* buffers and queues as they were.
C17_WouldBlockChangesNothing ==
    [][ \A fd \in ClientFDs :
          ReadEventWouldBlock(fd) =>
             UNCHANGED << running, fd_to_socket, fd_to_socket_context, epoll,
                          req_to_client >> ]_vars

\* the client on fd sent bytes without a CRLF CRLF, closed, and the proxy
\* has handled the end of the stream
PartialThenClosed(fd) ==
    /\ peer[fd] = "closed"
    /\ rx[fd] # << >>
    /\ FindTerminator(rx[fd], 1) = 0
    /\ wire[fd] = << >>
    /\ fd \in torn

\* C19: after a client sent part of a header block and closed, its
\* connection is torn down (no socket, no registration, no context), no
\* backend connection exists and req_to_client holds no entry for it.
C19_PartialHeaderThenClose ==
    \A fd \in ClientFDs :
       PartialThenClosed(fd) =>
          /\ fd \notin fd_to_socket
          /\ fd \notin DOMAIN epoll
          /\ fd \notin DOMAIN fd_to_socket_context
          /\ address_to_fd = << >>
          /\ \A b \in DOMAIN fd_to_socket_context :
                fd_to_socket_context[b].socket_type # PROXY_TO_BACKEND
          /\ \A id \in DOMAIN req_to_client : req_to_client[id] # fd

\* C19 happens: some client sent a partial header block and closed
C19_Witness == \E fd \in ClientFDs : PartialThenClosed(fd)

\* the bytes of the complete messages of descriptor fd that reached the
\* router
RECURSIVE MessageBytes(_)
MessageBytes(rs) ==
    IF rs = << >> THEN << >>
    ELSE rs[1].msg.header_buffer \o rs[1].msg.body_data \o MessageBytes(Tail(rs))

\* C22: the bytes of a message that was completed and routed are no longer
\* in recv_buffer: what recv_buffer holds is at most what was received and
\* does not belong to a routed message.
C22_RoutedBytesLeaveRecvBuffer ==
    \A fd \in DOMAIN fd_to_socket_context :
       Len(fd_to_socket_context[fd].recv_buffer) + Len(MessageBytes(RoutedOn(fd)))
          <= Len(rx[fd])

C31_PipelinedRequestsAllRouted ==
    [][ \A fd \in ClientFDs :
          (rx[fd] = << >> /\ rx'[fd] # << >>) =>
             \A msgs \in { find_message_boundaries(rx'[fd]) } :
                \A i \in 1 .. Len(msgs) :
                   is_complete(parse_data(NewBuilder, msgs[i]).b) =>
                      /\ Len(RoutedOn(fd)') >= i
                      /\ RoutedOn(fd)'[i].msg = parse_data(NewBuilder, msgs[i]).b ]_vars

\* C33: a message that reaches the router with an X-Request-ID header has
\* an x_request_id attribute, and the attribute holds the header's value.
C33_RequestIdFieldHoldsHeader ==
    \A i \in 1 .. Len(routed) :
       HasHeader(routed[i].msg, XID) =>
          /\ HasAttr(routed[i].msg, "x_request_id")
          /\ routed[i].msg.x_request_id = HeaderGet(routed[i].msg.headers, XID, << >>)

\* C36: after every step, no connection's recv_buffer holds more than 8192
\* bytes plus the content_length of the message in progress.
C36_RecvBufferBounded ==
    \A fd \in DOMAIN fd_to_socket_context :
       Size(fd_to_socket_context[fd].recv_buffer)
          <= 8192 + fd_to_socket_context[fd].current_request.content_length

\* C36 happens: over several read events an open connection has received
\* more than 8192 bytes of a message that is still in progress
C36_Witness ==
    \E fd \in DOMAIN fd_to_socket_context :
       /\ running
       /\ fd \in DOMAIN epoll
       /\ Size(rx[fd]) > 8192
       /\ wire[fd] = << >>
       /\ ~is_complete(fd_to_socket_context[fd].current_request)


\* ------------------- properties of the parser on its own ----------------
\* the header lines of a byte sequence as the list of their (name, value)
\* pairs, one pair per line that holds a colon, in the order of the lines
RECURSIVE ItemList(_)
ItemList(lines) ==
    IF lines = << >> THEN << >>
    ELSE LET c == ColonAt(lines[1], 1)
         IN (IF c = 0 THEN << >>
             ELSE << [k |-> Strip(Take(lines[1], c - 1)),
                      v |-> Strip(Drop(lines[1], c))] >>)
            \o ItemList(Tail(lines))

\* the header pairs of the message that starts a byte sequence whose header
\* block is terminated
HeaderItems(bytes) ==
    ItemList(Tail(SplitOn(Take(bytes, FindTerminator(bytes, 1) - 1), "CRLF", << >>)))

WithoutXID(items) == SelectSeq(items, LAMBDA h : h.k # XID)

\* C11: apart from X-Request-ID, the serialized request has the headers of
\* the received request: same names, same values, same multiplicity, same
\* order.
C11_HeadersForwardedUnchanged ==
    (codec.pc \in {"built", "reparsed"} /\ codec.m.headers_received)
        => WithoutXID(HeaderItems(codec.out)) = WithoutXID(HeaderItems(codec.input))

\* a message field by field, header names lower-cased and header values
\* stripped
NormalHeaders(headers) ==
    [i \in 1 .. Len(headers) |->
        [k |-> LowerText(headers[i].k), v |-> Strip(headers[i].v)]]

MessageFields(m) ==
    [ is_response |-> m.is_response, method |-> m.method, path |-> m.path,
      http_version |-> m.http_version, status_code |-> m.status_code,
      status_message |-> m.status_message, headers |-> NormalHeaders(m.headers),
      body_data |-> m.body_data, content_length |-> m.content_length,
      keep_alive |-> m.keep_alive ]

\* C20: parsing the bytes of build_full_message(m) gives a message equal to
\* m in its start-line fields, header mapping, body, content_length and
\* keep_alive, for every m the parser produced.
C20_ParseOfSerializeIsIdentity ==
    codec.pc = "reparsed" => MessageFields(codec.m2) = MessageFields(codec.m)

\* C20 happens: a complete message with headers and a body went round
C20_Witness ==
    /\ codec.pc = "reparsed"
    /\ is_complete(codec.m)
    /\ codec.m.headers # << >>
    /\ codec.m.body_data # << >>

\* the headers of m whose name is Content-Length in some letter case
LengthHeaders(m) ==
    SelectSeq(m.headers, LAMBDA h : LowerText(h.k) = << "content-length" >>)

\* C32: a message with one Content-Length header, in whatever letter case,
\* whose value is a decimal number has that number as its content_length.
C32_ContentLengthAnyCase ==
    (codec.pc \in {"parsed", "built", "reparsed"} /\ codec.m.headers_received) =>
       \A hs \in { LengthHeaders(codec.m) } :
          (Len(hs) = 1 /\ AllDigits(hs[1].v)) =>
             codec.m.content_length = Decimal(hs[1].v, 0)

\* C35: a message is complete exactly when its headers are received and
\* body_received >= content_length; body_received counts the bytes of
\* body_data and never exceeds content_length, so that no byte after the
\* declared body is taken into it.
C35_BodyWithinContentLength ==
    codec.pc \in {"parsed", "built", "reparsed"} =>
       /\ is_complete(codec.m) <=>
             (codec.m.headers_received
                /\ codec.m.body_received >= codec.m.content_length)
       /\ codec.m.body_received = Len(codec.m.body_data)
       /\ codec.m.body_received <= codec.m.content_length

\* C37: the content_length of every message the parser produced is a
\* non-negative integer.
C37_ContentLengthNonNegative ==
    codec.pc \in {"parsed", "built", "reparsed"} => codec.m.content_length >= 0

====
